---- MODULE Spec2Model ----
(***************************************************************************)
(* ADC sampling with UART output (32MX_SP/src/main.c).                     *)
(*                                                                         *)
(* Three execution contexts share the globals adcSum, sampleCount,         *)
(* dataReady and adcEnabled:                                               *)
(*   - main(): start-up, then the polling loop that calls                  *)
(*     Calculate_ADC_Average; one step per access of a volatile global,    *)
(*     so that an interrupt can land between any two of them;              *)
(*   - ADC_Callback: the conversion-complete interrupt, run to completion; *)
(*   - UART_RX_Callback: the byte-received interrupt, run to completion    *)
(*     except for its transmit-busy spin, during which only the            *)
(*     transmitter makes progress.                                         *)
(* Bytes are ASCII codes, strings are sequences of codes.                  *)
(***************************************************************************)
EXTENDS Integers, Sequences, FiniteSets, TLC

VARIABLES
    pc,            \* position of main()
    adcSum,        \* volatile uint32_t adcSum
    sampleCount,   \* volatile uint32_t sampleCount
    dataReady,     \* volatile bool dataReady
    adcEnabled,    \* volatile bool adcEnabled
    txBuffer,      \* static char txBuffer[64], as the C string it holds
    rxBuffer,      \* static char rxBuffer[16], all 16 cells
    rxByte,        \* static char rxByte
    rxIndex,       \* static uint8_t rxIndex
    currentSum,    \* Calculate_ADC_Average: uint32_t currentSum
    currentCount,  \* Calculate_ADC_Average: uint32_t currentCount
    average,       \* Calculate_ADC_Average: uint32_t average
    rxpc,          \* position of UART_RX_Callback: "idle", or spinning before an acknowledgement
    rxArmed,       \* a single-byte UART2_Read is pending
    adcRunning,    \* ADC_CallbackRegister, ADC_Enable and TMR3_Start have run
    adcIF,         \* the ADC interrupt flag (INT_SOURCE_ADC) is pending
    adcResult,     \* ADC_RESULT_BUFFER_0
    txBusy,        \* UART2_WriteIsBusy()
    out,           \* every buffer handed to UART2_Write, in order
    txCollide,     \* some UART2_Write was submitted while the transmitter was busy
    hostLine,      \* the line the host is sending
    hostQueue,     \* bytes of the host's current line not yet received
    linesSent,     \* lines the host has started
    conversions,   \* conversions completed so far
    accepted,      \* history: samples accumulated by ADC_Callback since the last STOP
    recent,        \* history: the last printable bytes received, at most five
    cmdSeen,       \* history: the printable bytes received have spelled START or STOP
    divZero,       \* history: Calculate_ADC_Average divided by a zero count
    skipped        \* history: Calculate_ADC_Average returned at its zero-count guard

vars == << pc, adcSum, sampleCount, dataReady, adcEnabled, txBuffer, rxBuffer,
           rxByte, rxIndex, currentSum, currentCount, average, rxpc, rxArmed,
           adcRunning, adcIF, adcResult, txBusy, out, txCollide, hostLine,
           hostQueue, linesSent, conversions, accepted, recent, cmdSeen, divZero, skipped >>

----------------------------------------------------------------------------
(* Bounds of the model *)

\* main.c:37 sets the window to 1200 samples; the model runs a short window.
ADC_SAMPLE_COUNT == 3

\* Conversions the hardware completes in a run.
MaxConversions == 4

\* Lines the host sends in a run.
MaxLines == 2

(* Program constants *)

\* sizeof(rxBuffer)
RX_BUFFER_SIZE == 16

\* Values ADC_ResultGet can return in the model.
SampleValues == {10, 21}

\* uint32_t addition. Every sum of a run of the model stays far below 2^31, the
\* largest integer of the model checker, so no addition of the model wraps.
AddU32(a, b) == a + b

----------------------------------------------------------------------------
(* Strings *)

CRLF == << 13, 10 >>

CMD_START == << 83, 84, 65, 82, 84 >>

CMD_STOP == << 83, 84, 79, 80 >>

MSG_READY == << 82, 69, 65, 68, 89 >> \o CRLF

MSG_OK_START == << 79, 75, 95 >> \o CMD_START \o CRLF

MSG_OK_STOP == << 79, 75, 95 >> \o CMD_STOP \o CRLF

\* Variant: the upper limit taken as 0x7F, which lets DEL through.
IsPrintable_ThroughDel(b) == b >= 32 /\ b <= 127

\* rxByte >= 0x20 && rxByte <= 0x7E
IsPrintable(b) == b >= 32 /\ b <= 126

\* The C string held in an array: the cells before the first NUL.
RECURSIVE CStrFrom(_, _)
CStrFrom(buf, i) ==
    IF i > Len(buf) \/ buf[i] = 0 THEN << >>
    ELSE << buf[i] >> \o CStrFrom(buf, i + 1)

CStr(buf) == CStrFrom(buf, 1)

\* Variant: strncmp(a, b, 4) == 0, a comparison of the first four characters only.
StrEq_FirstFour(buf, lit) ==
    /\ Len(CStr(buf)) >= 4
    /\ SubSeq(CStr(buf), 1, 4) = SubSeq(lit, 1, 4)

\* strcmp(a, b) == 0
StrEq(buf, lit) == CStr(buf) = lit

\* sprintf "%u": the decimal digits of n, most significant first.
RECURSIVE Decimal(_)
Decimal(n) ==
    IF n < 10 THEN << 48 + n >>
    ELSE Decimal(n \div 10) \o << 48 + (n % 10) >>

\* sprintf(txBuffer, "%u\r\n", average)
FormatAverage(n) == Decimal(n) \o CRLF

----------------------------------------------------------------------------
(* The host: sends one line at a time, byte by byte *)

\* n copies of the byte b
RECURSIVE Repeat(_, _)
Repeat(b, n) == IF n = 0 THEN << >> ELSE << b >> \o Repeat(b, n - 1)

LINE_START == CMD_START \o CRLF

LINE_STOP == CMD_STOP \o CRLF

\* An unknown one-letter command, "X".
LINE_JUNK == << 88 >> \o CRLF

\* START with control bytes, DEL and a byte above 0x7E scattered through it.
LINE_NOISY == << 0, 83, 84, 31, 65, 127, 82, 239, 84 >> \o CRLF

\* A line of X one byte longer than rxBuffer.
LINE_LONG == Repeat(88, RX_BUFFER_SIZE + 1) \o CRLF

HostLines == { LINE_START, LINE_STOP, LINE_JUNK, LINE_NOISY, LINE_LONG }

HostSendLine ==
    /\ hostQueue = << >>
    /\ linesSent < MaxLines
    /\ \E l \in HostLines : hostLine' = l /\ hostQueue' = l
    /\ linesSent' = linesSent + 1
    /\ UNCHANGED << pc, adcSum, sampleCount, dataReady, adcEnabled, txBuffer,
                    rxBuffer, rxByte, rxIndex, currentSum, currentCount, average,
                    rxpc, rxArmed, adcRunning, adcIF, adcResult, txBusy, out,
                    txCollide, conversions, accepted, recent, cmdSeen, divZero, skipped >>

----------------------------------------------------------------------------
(* The UART2 transmitter *)

\* UART2_Write(buf, strlen(buf)): the buffer is handed to the transmitter.
UART2_Write(buf) ==
    /\ out' = Append(out, buf)
    /\ txCollide' = (txCollide \/ txBusy)
    /\ txBusy' = TRUE

\* The transmitter has sent the last byte of the buffer it was given.
TxComplete ==
    /\ txBusy
    /\ txBusy' = FALSE
    /\ UNCHANGED << pc, adcSum, sampleCount, dataReady, adcEnabled, txBuffer,
                    rxBuffer, rxByte, rxIndex, currentSum, currentCount, average,
                    rxpc, rxArmed, adcRunning, adcIF, adcResult, out, txCollide,
                    hostLine, hostQueue, linesSent, conversions, accepted, recent, cmdSeen, divZero, skipped >>

----------------------------------------------------------------------------
(* UART_RX_Callback *)

\* if (rxIndex < sizeof(rxBuffer) - 1)
HasRoom(idx) == idx < RX_BUFFER_SIZE - 1

\* Variant: the comparison written with > instead of >=.
IsFull_Strict(idx) == idx > RX_BUFFER_SIZE - 1

\* else if (rxIndex >= sizeof(rxBuffer) - 1)
IsFull(idx) == idx >= RX_BUFFER_SIZE - 1

\* rxBuffer[rxIndex++] = rxByte; rxBuffer[rxIndex] = '\0';  (cells are 0-based in C)
StoreByte(buf, idx, b) == [buf EXCEPT ![idx + 1] = b, ![idx + 2] = 0]

\* rxBuffer[0] = '\0';
ClearBuffer(buf) == [buf EXCEPT ![1] = 0]

\* History of the input: the bytes 0x20..0x7E sent by the host, the last five of
\* them, and whether a sequence of them ends with one of the two commands.
InPrintableRange(b) == b \in 32..126

LastFive(str) == IF Len(str) <= 5 THEN str ELSE SubSeq(str, Len(str) - 4, Len(str))

EndsWith(str, lit) ==
    Len(str) >= Len(lit) /\ SubSeq(str, Len(str) - Len(lit) + 1, Len(str)) = lit

EndsWithCommand(str) == EndsWith(str, CMD_START) \/ EndsWith(str, CMD_STOP)

\* Variant: the START branch also clears the accumulator, as the STOP branch does.
OnStart_ClearsWindow(buf) ==
    /\ adcEnabled' = TRUE
    /\ adcSum' = 0
    /\ sampleCount' = 0
    /\ dataReady' = FALSE
    /\ rxIndex' = 0
    /\ rxBuffer' = ClearBuffer(buf)
    /\ rxpc' = "ackStart"
    /\ rxArmed' = FALSE
    /\ UNCHANGED accepted

\* "START" matched: enable sampling, empty the line buffer, go and acknowledge.
OnStart(buf) ==
    /\ adcEnabled' = TRUE
    /\ rxIndex' = 0
    /\ rxBuffer' = ClearBuffer(buf)
    /\ rxpc' = "ackStart"
    /\ rxArmed' = FALSE
    /\ UNCHANGED << adcSum, sampleCount, dataReady, accepted >>

\* Variant: the STOP branch disables sampling without clearing the accumulator.
OnStop_KeepsWindow(buf) ==
    /\ adcEnabled' = FALSE
    /\ rxIndex' = 0
    /\ rxBuffer' = ClearBuffer(buf)
    /\ rxpc' = "ackStop"
    /\ rxArmed' = FALSE
    /\ accepted' = << >>
    /\ UNCHANGED << adcSum, sampleCount, dataReady >>

\* "STOP" matched: disable sampling, clear the accumulator, empty the line
\* buffer, go and acknowledge.
OnStop(buf) ==
    /\ adcEnabled' = FALSE
    /\ adcSum' = 0
    /\ sampleCount' = 0
    /\ dataReady' = FALSE
    /\ rxIndex' = 0
    /\ rxBuffer' = ClearBuffer(buf)
    /\ rxpc' = "ackStop"
    /\ rxArmed' = FALSE
    /\ accepted' = << >>

\* Buffer full with no match: empty the line buffer.
OnOverflow(buf) ==
    /\ rxIndex' = 0
    /\ rxBuffer' = ClearBuffer(buf)
    /\ UNCHANGED << adcEnabled, adcSum, sampleCount, dataReady, rxpc, rxArmed,
                    accepted >>

\* No match, room left: keep the byte and wait for the next one.
OnPartial(buf, idx) ==
    /\ rxIndex' = idx
    /\ rxBuffer' = buf
    /\ UNCHANGED << adcEnabled, adcSum, sampleCount, dataReady, rxpc, rxArmed,
                    accepted >>

\* The byte is filtered out, or the buffer has no room: nothing is stored.
OnDiscard ==
    UNCHANGED << adcEnabled, adcSum, sampleCount, dataReady, rxIndex, rxBuffer,
                 rxpc, rxArmed, accepted >>

\* The interrupt delivers the byte into rxByte and runs the callback up to the
\* transmit-busy spin of an acknowledgement, or to its end (the re-arming
\* UART2_Read) when nothing is matched.
UART_RX_Callback ==
    /\ rxArmed
    /\ rxpc = "idle"
    /\ hostQueue # << >>
    /\ LET b    == Head(hostQueue)
           buf1 == StoreByte(rxBuffer, rxIndex, b)
           idx1 == rxIndex + 1
       IN  /\ rxByte' = b
           /\ hostQueue' = Tail(hostQueue)
           /\ recent' = IF InPrintableRange(b) THEN LastFive(Append(recent, b))
                        ELSE recent
           /\ cmdSeen' = (cmdSeen \/
                          (InPrintableRange(b) /\ EndsWithCommand(Append(recent, b))))
           /\ IF IsPrintable(b) /\ HasRoom(rxIndex)
              THEN IF StrEq(buf1, CMD_START) THEN OnStart(buf1)
                   ELSE IF StrEq(buf1, CMD_STOP) THEN OnStop(buf1)
                   ELSE IF IsFull(idx1) THEN OnOverflow(buf1)
                   ELSE OnPartial(buf1, idx1)
              ELSE OnDiscard
    /\ UNCHANGED << pc, txBuffer, currentSum, currentCount, average, adcRunning,
                    adcIF, adcResult, txBusy, out, txCollide, hostLine, linesSent,
                    conversions, divZero, skipped >>

\* Variant: both branches send the acknowledgement of START.
AckMessage_AlwaysStart(p) == MSG_OK_START

\* The literal each branch hands to UART2_Write.
AckMessage(p) == IF p = "ackStart" THEN MSG_OK_START ELSE MSG_OK_STOP

\* Variant: the callback returns after the acknowledgement without UART2_Read.
UART_RX_Acknowledge_NoRearm ==
    /\ rxpc # "idle"
    /\ ~txBusy
    /\ UART2_Write(AckMessage(rxpc))
    /\ rxpc' = "idle"
    /\ UNCHANGED << pc, adcSum, sampleCount, dataReady, adcEnabled, txBuffer,
                    rxBuffer, rxByte, rxIndex, currentSum, currentCount, average,
                    rxArmed, adcRunning, adcIF, adcResult, hostLine, hostQueue,
                    linesSent, conversions, accepted, recent, cmdSeen, divZero,
                    skipped >>

\* while (UART2_WriteIsBusy()); UART2_Write("OK_...\r\n", n); then UART2_Read(&rxByte, 1)
UART_RX_Acknowledge ==
    /\ rxpc # "idle"
    /\ ~txBusy
    /\ UART2_Write(AckMessage(rxpc))
    /\ rxpc' = "idle"
    /\ rxArmed' = TRUE
    /\ UNCHANGED << pc, adcSum, sampleCount, dataReady, adcEnabled, txBuffer,
                    rxBuffer, rxByte, rxIndex, currentSum, currentCount, average,
                    adcRunning, adcIF, adcResult, hostLine, hostQueue, linesSent,
                    conversions, accepted, recent, cmdSeen, divZero, skipped >>

----------------------------------------------------------------------------
(* ADC_Callback *)

\* Timer 3 triggers a conversion; its completion raises the ADC interrupt flag.
ConversionComplete ==
    /\ adcRunning
    /\ ~adcIF
    /\ conversions < MaxConversions
    /\ adcIF' = TRUE
    /\ \E s \in SampleValues : adcResult' = s
    /\ conversions' = conversions + 1
    /\ UNCHANGED << pc, adcSum, sampleCount, dataReady, adcEnabled, txBuffer,
                    rxBuffer, rxByte, rxIndex, currentSum, currentCount, average,
                    rxpc, rxArmed, adcRunning, txBusy, out, txCollide, hostLine, hostQueue,
                    linesSent, accepted, recent, cmdSeen, divZero, skipped >>

\* if (sampleCount >= ADC_SAMPLE_COUNT)
WindowComplete(count) == count >= ADC_SAMPLE_COUNT

\* Variant: the enable test placed before the clearing of the interrupt flag.
ADC_Callback_TestsFirst ==
    /\ adcIF
    /\ rxpc = "idle"
    /\ IF ~adcEnabled
       THEN UNCHANGED << adcIF, adcSum, sampleCount, dataReady, accepted >>
       ELSE /\ adcIF' = FALSE
            /\ adcSum' = AddU32(adcSum, adcResult)
            /\ sampleCount' = AddU32(sampleCount, 1)
            /\ dataReady' = IF WindowComplete(sampleCount') THEN TRUE ELSE dataReady
            /\ accepted' = Append(accepted, adcResult)
    /\ UNCHANGED << pc, adcEnabled, txBuffer, rxBuffer, rxByte, rxIndex,
                    currentSum, currentCount, average, rxpc, rxArmed, adcRunning,
                    adcResult, txBusy, out, txCollide, hostLine, hostQueue,
                    linesSent, conversions, recent, cmdSeen, divZero, skipped >>

ADC_Callback ==
    /\ adcIF
    /\ rxpc = "idle"
    /\ adcIF' = FALSE
    /\ IF ~adcEnabled
       THEN UNCHANGED << adcSum, sampleCount, dataReady, accepted >>
       ELSE /\ adcSum' = AddU32(adcSum, adcResult)
            /\ sampleCount' = AddU32(sampleCount, 1)
            /\ dataReady' = IF WindowComplete(sampleCount') THEN TRUE ELSE dataReady
            /\ accepted' = Append(accepted, adcResult)
    /\ UNCHANGED << pc, adcEnabled, txBuffer, rxBuffer, rxByte, rxIndex,
                    currentSum, currentCount, average, rxpc, rxArmed, adcRunning,
                    adcResult, txBusy, out, txCollide, hostLine, hostQueue, linesSent,
                    conversions, recent, cmdSeen, divZero, skipped >>

----------------------------------------------------------------------------
(* main *)

\* Variant: start-up without the READY line.
Main_Ready_Silent ==
    /\ pc = "boot"
    /\ pc' = "armRx"
    /\ UNCHANGED << adcSum, sampleCount, dataReady, adcEnabled, txBuffer, rxBuffer,
                    rxByte, rxIndex, currentSum, currentCount, average, rxpc,
                    rxArmed, adcRunning, adcIF, adcResult, txBusy, out, txCollide,
                    hostLine, hostQueue, linesSent, conversions, accepted, recent,
                    cmdSeen, divZero, skipped >>

\* SYS_Initialize, the LED, and UART2_Write("READY\r\n", 7)
Main_Ready ==
    /\ pc = "boot"
    /\ UART2_Write(MSG_READY)
    /\ pc' = "armRx"
    /\ UNCHANGED << adcSum, sampleCount, dataReady, adcEnabled, txBuffer, rxBuffer,
                    rxByte, rxIndex, currentSum, currentCount, average, rxpc,
                    rxArmed, adcRunning, adcIF, adcResult, hostLine, hostQueue, linesSent,
                    conversions, accepted, recent, cmdSeen, divZero, skipped >>

\* UART2_ReadCallbackRegister(UART_RX_Callback, 0); UART2_Read(&rxByte, 1);
Main_ArmRx ==
    /\ pc = "armRx"
    /\ rxArmed' = TRUE
    /\ pc' = "startAdc"
    /\ UNCHANGED << adcSum, sampleCount, dataReady, adcEnabled, txBuffer, rxBuffer,
                    rxByte, rxIndex, currentSum, currentCount, average, rxpc,
                    adcRunning, adcIF, adcResult, txBusy, out, txCollide, hostLine, hostQueue,
                    linesSent, conversions, accepted, recent, cmdSeen, divZero, skipped >>

\* ADC_CallbackRegister(ADC_Callback, 0); ADC_Enable(); TMR3_Start();
Main_StartAdc ==
    /\ pc = "startAdc"
    /\ rxpc = "idle"
    /\ adcRunning' = TRUE
    /\ pc' = "poll"
    /\ UNCHANGED << adcSum, sampleCount, dataReady, adcEnabled, txBuffer, rxBuffer,
                    rxByte, rxIndex, currentSum, currentCount, average, rxpc,
                    rxArmed, adcIF, adcResult, txBusy, out, txCollide, hostLine, hostQueue,
                    linesSent, conversions, accepted, recent, cmdSeen, divZero, skipped >>

\* SYS_Tasks(); if (dataReady) Calculate_ADC_Average();
\* An iteration that reads dataReady false changes nothing.
Main_Poll ==
    /\ pc = "poll"
    /\ rxpc = "idle"
    /\ dataReady
    /\ pc' = "snapSum"
    /\ UNCHANGED << adcSum, sampleCount, dataReady, adcEnabled, txBuffer, rxBuffer,
                    rxByte, rxIndex, currentSum, currentCount, average, rxpc,
                    rxArmed, adcRunning, adcIF, adcResult, txBusy, out, txCollide,
                    hostLine, hostQueue, linesSent, conversions, accepted, recent, cmdSeen, divZero, skipped >>

----------------------------------------------------------------------------
(* Calculate_ADC_Average, one step per access of a shared variable *)

\* uint32_t currentSum = adcSum;
Calc_ReadSum ==
    /\ pc = "snapSum"
    /\ rxpc = "idle"
    /\ currentSum' = adcSum
    /\ pc' = "snapCount"
    /\ UNCHANGED << adcSum, sampleCount, dataReady, adcEnabled, txBuffer, rxBuffer,
                    rxByte, rxIndex, currentCount, average, rxpc, rxArmed,
                    adcRunning, adcIF, adcResult, txBusy, out, txCollide, hostLine, hostQueue,
                    linesSent, conversions, accepted, recent, cmdSeen,
                    divZero, skipped >>

\* uint32_t currentCount = sampleCount;
Calc_ReadCount ==
    /\ pc = "snapCount"
    /\ rxpc = "idle"
    /\ currentCount' = sampleCount
    /\ pc' = "clrSum"
    /\ UNCHANGED << adcSum, sampleCount, dataReady, adcEnabled, txBuffer, rxBuffer,
                    rxByte, rxIndex, currentSum, average, rxpc, rxArmed, adcRunning,
                    adcIF, adcResult, txBusy, out, txCollide, hostLine, hostQueue, linesSent,
                    conversions, accepted, recent, cmdSeen, divZero, skipped >>

\* adcSum = 0;
Calc_ClearSum ==
    /\ pc = "clrSum"
    /\ rxpc = "idle"
    /\ adcSum' = 0
    /\ pc' = "clrCount"
    /\ UNCHANGED << sampleCount, dataReady, adcEnabled, txBuffer, rxBuffer, rxByte,
                    rxIndex, currentSum, currentCount, average, rxpc, rxArmed,
                    adcRunning, adcIF, adcResult, txBusy, out, txCollide, hostLine, hostQueue,
                    linesSent, conversions, accepted, recent, cmdSeen,
                    divZero, skipped >>

\* sampleCount = 0;
Calc_ClearCount ==
    /\ pc = "clrCount"
    /\ rxpc = "idle"
    /\ sampleCount' = 0
    /\ pc' = "clrReady"
    /\ UNCHANGED << adcSum, dataReady, adcEnabled, txBuffer, rxBuffer, rxByte,
                    rxIndex, currentSum, currentCount, average, rxpc, rxArmed,
                    adcRunning, adcIF, adcResult, txBusy, out, txCollide, hostLine, hostQueue,
                    linesSent, conversions, accepted, recent, cmdSeen,
                    divZero, skipped >>

\* dataReady = false;
Calc_ClearReady ==
    /\ pc = "clrReady"
    /\ rxpc = "idle"
    /\ dataReady' = FALSE
    /\ pc' = "guard"
    /\ UNCHANGED << adcSum, sampleCount, adcEnabled, txBuffer, rxBuffer, rxByte,
                    rxIndex, currentSum, currentCount, average, rxpc, rxArmed,
                    adcRunning, adcIF, adcResult, txBusy, out, txCollide, hostLine, hostQueue,
                    linesSent, conversions, accepted, recent, cmdSeen,
                    divZero, skipped >>

\* Variant: the guard left out.
CountIsZero_Never(count) == FALSE

\* if (currentCount == 0) return;
CountIsZero(count) == count = 0

\* uint32_t average = currentSum / currentCount;
\* (the quotient by zero is not defined; the model records the division in divZero)
Quotient(sum, count) == IF count = 0 THEN 0 ELSE sum \div count

Calc_Average ==
    /\ pc = "guard"
    /\ rxpc = "idle"
    /\ IF CountIsZero(currentCount)
       THEN /\ pc' = "poll"
            /\ skipped' = TRUE
            /\ UNCHANGED << average, divZero >>
       ELSE /\ average' = Quotient(currentSum, currentCount)
            /\ divZero' = (divZero \/ currentCount = 0)
            /\ pc' = "wait"
            /\ UNCHANGED skipped
    /\ UNCHANGED << adcSum, sampleCount, dataReady, adcEnabled, txBuffer, rxBuffer,
                    rxByte, rxIndex, currentSum, currentCount, rxpc, rxArmed,
                    adcRunning, adcIF, adcResult, txBusy, out, txCollide, hostLine, hostQueue,
                    linesSent, conversions, accepted, recent, cmdSeen >>

\* while (UART2_WriteIsBusy()); sprintf(txBuffer, "%u\r\n", (unsigned int)average);
Calc_Format ==
    /\ pc = "wait"
    /\ rxpc = "idle"
    /\ ~txBusy
    /\ txBuffer' = FormatAverage(average)
    /\ pc' = "write"
    /\ UNCHANGED << adcSum, sampleCount, dataReady, adcEnabled, rxBuffer, rxByte,
                    rxIndex, currentSum, currentCount, average, rxpc, rxArmed,
                    adcRunning, adcIF, adcResult, txBusy, out, txCollide, hostLine, hostQueue,
                    linesSent, conversions, accepted, recent, cmdSeen,
                    divZero, skipped >>

\* Variant: the function returns after sprintf without handing the line over.
Calc_Write_Omitted ==
    /\ pc = "write"
    /\ rxpc = "idle"
    /\ pc' = "poll"
    /\ UNCHANGED << adcSum, sampleCount, dataReady, adcEnabled, txBuffer, rxBuffer,
                    rxByte, rxIndex, currentSum, currentCount, average, rxpc,
                    rxArmed, adcRunning, adcIF, adcResult, txBusy, out, txCollide,
                    hostLine, hostQueue, linesSent, conversions, accepted, recent,
                    cmdSeen, divZero, skipped >>

\* UART2_Write(txBuffer, strlen(txBuffer));
Calc_Write ==
    /\ pc = "write"
    /\ rxpc = "idle"
    /\ UART2_Write(txBuffer)
    /\ pc' = "poll"
    /\ UNCHANGED << adcSum, sampleCount, dataReady, adcEnabled, txBuffer, rxBuffer,
                    rxByte, rxIndex, currentSum, currentCount, average, rxpc,
                    rxArmed, adcRunning, adcIF, adcResult, hostLine, hostQueue, linesSent,
                    conversions, accepted, recent, cmdSeen, divZero, skipped >>

----------------------------------------------------------------------------
(* The system *)

Init ==
    /\ pc = "boot"
    /\ adcSum = 0
    /\ sampleCount = 0
    /\ dataReady = FALSE
    /\ adcEnabled = FALSE
    /\ txBuffer = << >>
    /\ rxBuffer = [i \in 1..RX_BUFFER_SIZE |-> 0]
    /\ rxByte = 0
    /\ rxIndex = 0
    /\ currentSum = 0
    /\ currentCount = 0
    /\ average = 0
    /\ rxpc = "idle"
    /\ rxArmed = FALSE
    /\ adcRunning = FALSE
    /\ adcIF = FALSE
    /\ adcResult = 0
    /\ txBusy = FALSE
    /\ out = << >>
    /\ txCollide = FALSE
    /\ hostLine = << >>
    /\ hostQueue = << >>
    /\ linesSent = 0
    /\ conversions = 0
    /\ accepted = << >>
    /\ recent = << >>
    /\ cmdSeen = FALSE
    /\ divZero = FALSE
    /\ skipped = FALSE

Next ==
    \/ HostSendLine
    \/ TxComplete
    \/ UART_RX_Callback
    \/ UART_RX_Acknowledge
    \/ ConversionComplete
    \/ ADC_Callback
    \/ Main_Ready
    \/ Main_ArmRx
    \/ Main_StartAdc
    \/ Main_Poll
    \/ Calc_ReadSum
    \/ Calc_ReadCount
    \/ Calc_ClearSum
    \/ Calc_ClearCount
    \/ Calc_ClearReady
    \/ Calc_Average
    \/ Calc_Format
    \/ Calc_Write

Spec == Init /\ [][Next]_vars

\* The steps of main: start-up, the polling loop and Calculate_ADC_Average.
MainStep ==
    \/ Main_Ready
    \/ Main_ArmRx
    \/ Main_StartAdc
    \/ Main_Poll
    \/ Calc_ReadSum
    \/ Calc_ReadCount
    \/ Calc_ClearSum
    \/ Calc_ClearCount
    \/ Calc_ClearReady
    \/ Calc_Average
    \/ Calc_Format
    \/ Calc_Write

\* The system with its scheduling: the main loop keeps running (while (true)
\* at main.c:225), a pending ADC interrupt is served, a transmission that was
\* started completes, and the receive callback's spin ends once it does.
SpecFair ==
    /\ Init
    /\ [][Next]_vars
    /\ WF_vars(MainStep)
    /\ WF_vars(ADC_Callback)
    /\ WF_vars(TxComplete)
    /\ WF_vars(UART_RX_Acknowledge)

----------------------------------------------------------------------------
(* Vocabulary of the properties *)

\* An average line starts with a decimal digit; READY and the acknowledgements
\* start with a letter.
IsAverageLine(m) == Len(m) > 0 /\ m[1] \in 48..57

IsAck(m) == m = MSG_OK_START \/ m = MSG_OK_STOP

AverageLines(o) == SelectSeq(o, IsAverageLine)

Acks(o) == SelectSeq(o, IsAck)

RECURSIVE SumSeq(_)
SumSeq(q) == IF q = << >> THEN 0 ELSE Head(q) + SumSeq(Tail(q))

\* floor(sum of the k-th block of ADC_SAMPLE_COUNT samples of q / ADC_SAMPLE_COUNT)
BlockMean(q, k) ==
    SumSeq(SubSeq(q, (k - 1) * ADC_SAMPLE_COUNT + 1, k * ADC_SAMPLE_COUNT))
        \div ADC_SAMPLE_COUNT

\* No STOP has been matched since power-up: accepted holds every accepted sample.
NoStopEver == rxpc # "ackStop" /\ \A i \in 1..Len(out) : out[i] # MSG_OK_STOP

\* A step of the receive interrupt: it takes the next byte the host has sent.
RxStep == hostQueue # << >> /\ hostQueue' = Tail(hostQueue)

\* The largest index of o holding m, or 0.
LastIndexOf(o, m) ==
    LET S == { i \in 1..Len(o) : o[i] = m }
    IN  IF S = {} THEN 0 ELSE CHOOSE i \in S : \A j \in S : j <= i

\* The smallest index of o above i whose element satisfies P, or 0.
FirstAfter(o, i, P(_)) ==
    LET S == { j \in (i + 1)..Len(o) : P(o[j]) }
    IN  IF S = {} THEN 0 ELSE CHOOSE j \in S : \A h \in S : j <= h

----------------------------------------------------------------------------
(* C1 *)

\* C1 (as claimed): while no STOP has been matched, the k-th average line written
\* is the floor of the mean of the k-th block of ADC_SAMPLE_COUNT accepted
\* samples, and once the main loop is back at its poll with nothing pending and
\* a whole number of windows accepted, exactly one line per window was written.
C1_AverageLinePerWindow ==
    NoStopEver =>
        LET avgs == AverageLines(out)
        IN  /\ \A k \in 1..Len(avgs) :
                  /\ k * ADC_SAMPLE_COUNT <= Len(accepted)
                  /\ avgs[k] = FormatAverage(BlockMean(accepted, k))
            /\ ( /\ pc = "poll"
                 /\ ~dataReady
                 /\ ~adcIF
                 /\ Len(accepted) % ADC_SAMPLE_COUNT = 0 )
               => Len(avgs) = Len(accepted) \div ADC_SAMPLE_COUNT

----------------------------------------------------------------------------
(* C2 *)

\* C2 (as claimed): the step that receives the last command byte of a line START
\* enables sampling and goes to acknowledge with OK_START, and the step that
\* receives the last command byte of a line STOP disables sampling and goes to
\* acknowledge with OK_STOP, whatever was received before the line.
C2_CommandLineAcknowledged ==
    [][ /\ (RxStep /\ hostLine = LINE_START /\ Len(hostQueue) = Len(CRLF) + 1)
            => (adcEnabled' /\ rxpc' = "ackStart")
        /\ (RxStep /\ hostLine = LINE_STOP /\ Len(hostQueue) = Len(CRLF) + 1)
            => (~adcEnabled' /\ rxpc' = "ackStop") ]_vars

----------------------------------------------------------------------------
(* C3 *)

IsStartAck(m) == m = MSG_OK_START

\* C3 (as claimed): when START is matched and the command matched before it was
\* STOP, adcSum and sampleCount are zero; and the first average line written
\* after the OK_START that follows the last OK_STOP is the floor of the mean of
\* the first ADC_SAMPLE_COUNT samples accepted after that STOP.
C3_RestartReportsFreshWindow ==
    /\ ( /\ rxpc = "ackStart"
         /\ Acks(out) # << >>
         /\ Acks(out)[Len(Acks(out))] = MSG_OK_STOP )
       => (adcSum = 0 /\ sampleCount = 0)
    /\ LET i == LastIndexOf(out, MSG_OK_STOP)
           j == FirstAfter(out, i, IsStartAck)
           k == FirstAfter(out, j, IsAverageLine)
       IN  (rxpc # "ackStop" /\ i > 0 /\ j > 0 /\ k > 0)
           => /\ Len(accepted) >= ADC_SAMPLE_COUNT
              /\ out[k] = FormatAverage(BlockMean(accepted, 1))

----------------------------------------------------------------------------
(* C4 *)

\* C4: READY is the first buffer handed to the transmitter and is handed to it
\* once: nothing is written before it, it has been written as soon as main has
\* left its first step, it never appears again, and every step of the receive
\* interrupt finds it already written.
C4_ReadyFirstAndOnce ==
    /\ [] ( /\ (pc # "boot") => (out # << >>)
            /\ (out # << >>) => (out[1] = MSG_READY)
            /\ \A i \in 2..Len(out) : out[i] # MSG_READY )
    /\ [][ RxStep => (out # << >> /\ out[1] = MSG_READY) ]_vars

\* READY, then an acknowledgement of a command received after it.
C4_Witness == Len(out) >= 2 /\ out[1] = MSG_READY /\ IsAck(out[2])

----------------------------------------------------------------------------
(* C5 *)

\* C5: as long as the printable bytes received have spelled neither START nor
\* STOP, no step of the receive interrupt changes adcEnabled, adcSum,
\* sampleCount or dataReady or goes to acknowledge, no acknowledgement has been
\* written, and the printable byte that fills the buffer empties it.
C5_NoCommandNoEffect ==
    /\ [] ( ~cmdSeen => (Acks(out) = << >> /\ rxpc = "idle") )
    /\ [][ (RxStep /\ ~cmdSeen')
           => /\ UNCHANGED << adcEnabled, adcSum, sampleCount, dataReady, out >>
              /\ rxpc' = "idle"
              /\ (InPrintableRange(Head(hostQueue)) /\ rxIndex = RX_BUFFER_SIZE - 2)
                 => (rxIndex' = 0 /\ CStr(rxBuffer') = << >>) ]_vars

\* A line has filled the buffer and was dropped: the last cell but one has been
\* written, the buffer is empty again, and no command was spelled.
C5_Witness ==
    ~cmdSeen /\ rxIndex = 0 /\ CStr(rxBuffer) = << >> /\ rxBuffer[RX_BUFFER_SIZE - 1] # 0

----------------------------------------------------------------------------
(* C6 *)

\* C6: a step of the receive interrupt on a byte outside 0x20..0x7E changes
\* nothing but rxByte (and the host's queue): the line buffer, its index, the
\* shared state, the output and main are as before, and the receive is armed.
C6_NonPrintableDiscarded ==
    [][ (RxStep /\ ~InPrintableRange(Head(hostQueue)))
        => /\ UNCHANGED << rxBuffer, rxIndex, adcSum, sampleCount, dataReady,
                           adcEnabled, out, txBusy, txBuffer, pc, currentSum,
                           currentCount, average, adcIF, adcResult >>
           /\ rxpc' = "idle"
           /\ rxArmed' ]_vars

\* The byte last received is outside the range and the line buffer still holds
\* the bytes received before it.
C6_Witness == ~InPrintableRange(rxByte) /\ rxIndex > 0 /\ rxArmed /\ rxpc = "idle"

----------------------------------------------------------------------------
(* C7 *)

\* The step that receives the T completing START in the line buffer.
RecognisesStart ==
    RxStep /\ CStr(rxBuffer) = SubSeq(CMD_START, 1, 4) /\ Head(hostQueue) = CMD_START[5]

\* C7: recognising START while sampling is enabled leaves adcEnabled true and
\* adcSum, sampleCount and dataReady as they were, and goes to acknowledge; the
\* acknowledgement step then writes exactly one OK_START.
C7_StartIdempotent ==
    [][ /\ (RecognisesStart /\ adcEnabled)
           => /\ adcEnabled'
              /\ UNCHANGED << adcSum, sampleCount, dataReady, out >>
              /\ rxpc' = "ackStart"
        /\ (rxpc = "ackStart" /\ rxpc' # "ackStart")
           => out' = Append(out, MSG_OK_START) ]_vars

\* START has been recognised a second time while a window was in progress.
C7_Witness ==
    /\ rxpc = "ackStart"
    /\ sampleCount > 0
    /\ \E i \in 1..Len(out) : out[i] = MSG_OK_START

----------------------------------------------------------------------------
(* C8 *)

\* The step that receives the P completing STOP in the line buffer.
RecognisesStop ==
    RxStep /\ CStr(rxBuffer) = SubSeq(CMD_STOP, 1, 3) /\ Head(hostQueue) = CMD_STOP[4]

\* C8: recognising STOP while adcSum = 0, sampleCount = 0 and dataReady = FALSE
\* leaves the three as they were and writes nothing itself; the acknowledgement
\* step then writes exactly one OK_STOP.
C8_StopWhenIdle ==
    [][ /\ (RecognisesStop /\ adcSum = 0 /\ sampleCount = 0 /\ ~dataReady)
           => /\ UNCHANGED << adcSum, sampleCount, dataReady, out >>
              /\ rxpc' = "ackStop"
        /\ (rxpc = "ackStop" /\ rxpc' # "ackStop")
           => out' = Append(out, MSG_OK_STOP) ]_vars

\* STOP was acknowledged although sampling had never been started.
C8_Witness == Acks(out) # << >> /\ Acks(out)[1] = MSG_OK_STOP

----------------------------------------------------------------------------
(* C9 *)

\* C9 (as claimed): sampleCount never exceeds ADC_SAMPLE_COUNT.
C9_CountWithinWindow == sampleCount <= ADC_SAMPLE_COUNT

----------------------------------------------------------------------------
(* C10 *)

\* C10: Calculate_ADC_Average never divides by a zero count, and when its
\* snapshot of sampleCount is zero it returns to the poll without computing an
\* average, formatting or writing.
C10_ZeroCountSkipped ==
    /\ [] ~divZero
    /\ [][ (pc = "guard" /\ currentCount = 0 /\ pc' # "guard")
           => /\ pc' = "poll"
              /\ UNCHANGED << average, txBuffer, out, txBusy >> ]_vars

\* Calculate_ADC_Average has returned at its guard: a STOP cleared the
\* accumulator after the main loop had read dataReady.
C10_Witness == skipped /\ pc = "poll"

----------------------------------------------------------------------------
(* C11 *)

\* The positions of main between the first read and the last write of the
\* snapshot-and-reset: adcSum has been read, dataReady is not yet cleared.
SnapshotInProgress == { "snapCount", "clrSum", "clrCount", "clrReady" }

\* A step of ADC_Callback that accumulates a sample.
AdcAccumulates == adcIF /\ ~adcIF' /\ adcEnabled

\* C11 (as claimed): no accumulating execution of ADC_Callback takes effect
\* between the first read and the last write of the snapshot-and-reset.
C11_SnapshotIndivisible ==
    [][ AdcAccumulates => pc \notin SnapshotInProgress ]_vars

----------------------------------------------------------------------------
(* C12 *)

\* C12 (as claimed): no buffer is handed to UART2_Write while the transmitter
\* is busy.
C12_NoWriteWhileBusy == ~txCollide

----------------------------------------------------------------------------
(* C13 *)

----------------------------------------------------------------------------
(* C14 *)

\* C14: a step of ADC_Callback while adcEnabled is false changes nothing but
\* the ADC interrupt flag, and a raised flag is always cleared again, whether
\* sampling is enabled or not.
C14_DisabledCallbackOnlyClearsFlag ==
    /\ [][ (adcIF /\ ~adcIF' /\ ~adcEnabled)
           => UNCHANGED << pc, adcSum, sampleCount, dataReady, adcEnabled,
                           txBuffer, rxBuffer, rxByte, rxIndex, currentSum,
                           currentCount, average, rxpc, rxArmed, adcRunning,
                           adcResult, txBusy, out, txCollide, accepted >> ]_vars
    /\ (adcIF ~> ~adcIF)

\* A conversion completed and was served while sampling had never been enabled.
C14_Witness ==
    /\ conversions > 0
    /\ ~adcIF
    /\ ~adcEnabled
    /\ Acks(out) = << >>
    /\ rxpc = "idle"

----------------------------------------------------------------------------
(* C15 *)

\* C15: the receive is not armed while the callback spins before its
\* acknowledgement, every spin ends with the callback returned and the receive
\* armed, and whenever no callback is running after start-up the receive is
\* armed.
C15_ReceiveCallbackReturns ==
    /\ [] (rxpc # "idle" => ~rxArmed)
    /\ [] ((rxpc = "idle" /\ pc \notin { "boot", "armRx" }) => rxArmed)
    /\ ((rxpc # "idle") ~> (rxpc = "idle" /\ rxArmed))

\* A command was matched while an earlier transmission was still in progress:
\* the callback spins on the busy transmitter.
C15_Witness == rxpc # "idle" /\ txBusy

----------------------------------------------------------------------------
(* C16 *)

\* C16: between callbacks rxIndex is below capacity minus one, so the byte and
\* the terminator are stored inside the RX_BUFFER_SIZE cells; rxIndex is the
\* length of the string held, and every cell holds NUL or a printable byte.
C16_LineBufferWithinBounds ==
    /\ rxIndex < RX_BUFFER_SIZE - 1
    /\ rxIndex + 2 <= RX_BUFFER_SIZE
    /\ DOMAIN rxBuffer = 1..RX_BUFFER_SIZE
    /\ Len(CStr(rxBuffer)) = rxIndex
    /\ \A i \in 1..RX_BUFFER_SIZE : rxBuffer[i] = 0 \/ InPrintableRange(rxBuffer[i])

\* The buffer holds one byte less than its capacity: the next printable byte
\* fills it.
C16_Witness == rxIndex = RX_BUFFER_SIZE - 2 /\ rxpc = "idle"

----------------------------------------------------------------------------
(* C17 *)

MaxSample == CHOOSE v \in SampleValues : \A w \in SampleValues : w <= v

MinSample == CHOOSE v \in SampleValues : \A w \in SampleValues : v <= w

\* C17 (as claimed): adcSum never exceeds ADC_SAMPLE_COUNT times the largest
\* sample value.
C17_SumWithinWindow == adcSum <= ADC_SAMPLE_COUNT * MaxSample

----------------------------------------------------------------------------
(* C18 *)

\* C18 (as claimed): between an OK_STOP and the next OK_START no average line
\* is written.
C18_NoAverageAfterStop ==
    \A i \in 1..Len(out) : \A k \in 1..Len(out) :
        (i < k /\ out[i] = MSG_OK_STOP /\ IsAverageLine(out[k]))
            => \E j \in (i + 1)..(k - 1) : out[j] = MSG_OK_START

----------------------------------------------------------------------------
(* C19 *)

SeqMax(q) == CHOOSE v \in { q[i] : i \in 1..Len(q) } : \A i \in 1..Len(q) : q[i] <= v

SeqMin(q) == CHOOSE v \in { q[i] : i \in 1..Len(q) } : \A i \in 1..Len(q) : v <= q[i]

\* C19 (as claimed): every average line written is the decimal form of a value
\* between the smallest and the largest sample value the ADC delivers, and,
\* while no STOP has been matched, between the smallest and the largest sample
\* accepted.
C19_AverageWithinSamples ==
    \A i \in 1..Len(out) :
        IsAverageLine(out[i])
            => /\ \E v \in MinSample..MaxSample : out[i] = FormatAverage(v)
               /\ (NoStopEver /\ accepted # << >>)
                  => \E v \in SeqMin(accepted)..SeqMax(accepted) :
                         out[i] = FormatAverage(v)

----------------------------------------------------------------------------
(* C20 *)

\* C20: whenever the receive callback is not running, adcEnabled = FALSE
\* implies adcSum = 0, sampleCount = 0 and dataReady = FALSE.
C20_DisabledMeansCleared ==
    (rxpc = "idle" /\ ~adcEnabled)
        => (adcSum = 0 /\ sampleCount = 0 /\ ~dataReady)

\* A STOP was matched and acknowledged while the main loop was inside the
\* snapshot-and-reset of Calculate_ADC_Average.
C20_Witness ==
    /\ ~adcEnabled
    /\ rxpc = "idle"
    /\ pc \in SnapshotInProgress
    /\ Acks(out) # << >>
    /\ Acks(out)[Len(Acks(out))] = MSG_OK_STOP

====
